---------------------------- MODULE Spec2Model ----------------------------
(***************************************************************************)
(* Background remover: the settings store and its two routes, the model    *)
(* singleton, the upload section, and the mask / cutout pixel operations.  *)
(* Each part has its own specification over the same variables; a part's   *)
(* variables keep their initial values under the other specifications.     *)
(***************************************************************************)
EXTENDS Integers, Sequences, FiniteSets, TLC

VARIABLES
    settings,       \* MemStorage.settings, the single stored record
    request,        \* the last request the server handled
    response,       \* the response it gave
    bodyPixModel,   \* the module-level model cache (0 = null)
    loadCalls,      \* number of bodyPix.load invocations so far
    callerPc,       \* where each loadModel() call stands
    callerLoad,     \* the bodyPix.load a waiting caller started
    callerModel,    \* what each loadModel() call returned (0 = nothing yet)
    segmentCalls,   \* number of segmentPerson invocations so far
    file,           \* useImageUpload: file
    preview,        \* useImageUpload: preview
    isLoading,      \* useImageUpload: isLoading
    error,          \* useImageUpload: error
    progress,       \* useImageUpload: progress
    reads,          \* FileReader reads in flight
    mutation,       \* uploadMutation: idle, or pending with what it captured
    processing,     \* UploadSection: processing
    toast,          \* the title of the last toast shown
    result,         \* Home: result
    width,          \* img.width
    height,         \* img.height
    segData,        \* segmentation.data
    srcPixels,      \* the source image's pixels
    options,        \* the settings object removeBackground was called with
    segmentationThreshold, \* the threshold handed to the model, in hundredths
    pipeline,       \* which step of the pixel operation has run
    iterations,     \* refineMask's iterations argument
    outMask,        \* the mask the operation produced
    outPixels,      \* the canvas the operation produced
    canvas,         \* canvas.width and canvas.height of that canvas
    settingsData,   \* ResultSection: the data of the /api/settings query
    scale,          \* ResultSection: scale, in hundredths
    position,       \* ResultSection: position
    isDragging,     \* ResultSection: isDragging
    dragStart,      \* ResultSection: dragStart
    event,          \* the last ResultSection handler that ran
    format,         \* ResultSection: format
    downloadMutation, \* ResultSection: the status of downloadMutation
    downloadOptions,  \* the options the pending downloadMutation was given
    downloads,      \* the downloads started so far, in order
    uploadsDir,     \* temp_uploads: each file's age in ticks
    processedDir,   \* processed_images: each file's age in ticks
    timer,          \* ticks until the cleanup interval fires
    unlinked        \* the paths the last cleanup unlinked

settingsVars == <<settings, request, response>>
modelVars    == <<bodyPixModel, loadCalls, callerPc, callerLoad, callerModel, segmentCalls>>
uploadVars   == <<file, preview, isLoading, error, progress, reads, mutation, processing,
                  toast, result>>
pixelVars    == <<width, height, segData, srcPixels, options, segmentationThreshold,
                  pipeline, iterations, outMask, outPixels, canvas>>
transformVars == <<settingsData, scale, position, isDragging, dragStart, event>>
downloadVars == <<format, downloadMutation, downloadOptions, downloads>>
cleanupVars == <<uploadsDir, processedDir, timer, unlinked>>
vars == <<settings, request, response,
          bodyPixModel, loadCalls, callerPc, callerLoad, callerModel, segmentCalls,
          file, preview, isLoading, error, progress, reads, mutation, processing,
          toast, result,
          width, height, segData, srcPixels, options, segmentationThreshold,
          pipeline, iterations, outMask, outPixels, canvas,
          settingsData, scale, position, isDragging, dragStart, event,
          format, downloadMutation, downloadOptions, downloads,
          uploadsDir, processedDir, timer, unlinked>>

(***************************************************************************)
(* Objects as functions from keys; {...a, ...b} is Spread(a, b).           *)
(***************************************************************************)
Spread(a, b) ==
    [k \in DOMAIN a \cup DOMAIN b |-> IF k \in DOMAIN b THEN b[k] ELSE a[k]]

\* An object with the key k when S holds a value for it, the empty object otherwise.
Field(k, S) ==
    [x \in (IF S = {} THEN {} ELSE {k}) |-> CHOOSE v \in S : TRUE]

Has(o, k) == k \in DOMAIN o

(***************************************************************************)
(* shared/schema.ts                                                        *)
(***************************************************************************)
backgroundRemovalModels == {"u2net", "u2netp", "u2net_human_seg"}

backgroundTypes == {"transparent", "color", "image"}

ThresholdMin == 0

ThresholdMax == 100

SchemaKeys ==
    {"model", "alphaMatting", "foregroundThreshold", "backgroundThreshold",
     "backgroundType", "backgroundColor", "backgroundImage", "allowResize",
     "allowMove"}

\* z.number().min(0) without .max(100)
ThresholdOkNoMax(n) == n >= ThresholdMin

\* z.number().min(0).max(100)
ThresholdOk(n) == n >= ThresholdMin /\ n <= ThresholdMax

\* the schema with z.string() in place of z.enum(backgroundRemovalModels)
settingsSchemaAcceptsAnyModel(body) ==
    /\ Has(body, "model")
    /\ Has(body, "alphaMatting")
    /\ Has(body, "foregroundThreshold") /\ ThresholdOk(body["foregroundThreshold"])
    /\ Has(body, "backgroundThreshold") /\ ThresholdOk(body["backgroundThreshold"])
    /\ (Has(body, "backgroundType") => body["backgroundType"] \in backgroundTypes)

\* settingsSchema.parse succeeds: required keys present and every present key valid
settingsSchemaAccepts(body) ==
    /\ Has(body, "model") /\ body["model"] \in backgroundRemovalModels
    /\ Has(body, "alphaMatting")
    /\ Has(body, "foregroundThreshold") /\ ThresholdOk(body["foregroundThreshold"])
    /\ Has(body, "backgroundThreshold") /\ ThresholdOk(body["backgroundThreshold"])
    /\ (Has(body, "backgroundType") => body["backgroundType"] \in backgroundTypes)

\* .default(...) of the schema: the keys zod fills in when the input lacks them
SchemaDefaults ==
    [backgroundType |-> "transparent", backgroundColor |-> "#ffffff",
     allowResize |-> TRUE, allowMove |-> TRUE]

\* What settingsSchema.parse returns for an accepted body: unknown keys are
\* stripped, missing keys with a default get it, a missing optional key stays
\* missing.
settingsSchemaParse(body) ==
    Spread(SchemaDefaults, [k \in DOMAIN body \cap SchemaKeys |-> body[k]])

(***************************************************************************)
(* server/storage.ts                                                       *)
(***************************************************************************)
DefaultSettings ==
    [id |-> 1, model |-> "u2net", alphaMatting |-> FALSE,
     foregroundThreshold |-> 50, backgroundThreshold |-> 50,
     backgroundType |-> "transparent", backgroundColor |-> "#ffffff",
     backgroundImage |-> "", allowResize |-> TRUE, allowMove |-> TRUE]

getDefaultSettings == settings

updateSettings(newSettings) == Spread(settings, newSettings)

(***************************************************************************)
(* The request bodies tried on POST /api/settings.                         *)
(***************************************************************************)
Body(m, am, ft, bt, bty, bc, bi, ar, mv, idv) ==
    Spread(Field("model", m),
    Spread(Field("alphaMatting", am),
    Spread(Field("foregroundThreshold", ft),
    Spread(Field("backgroundThreshold", bt),
    Spread(Field("backgroundType", bty),
    Spread(Field("backgroundColor", bc),
    Spread(Field("backgroundImage", bi),
    Spread(Field("allowResize", ar),
    Spread(Field("allowMove", mv), Field("id", idv))))))))))

\* bodies that vary the four required fields and carry nothing else
RequiredBodies ==
    { Body(m, am, ft, bt, {}, {}, {}, {}, {}, {}) :
        m \in {{}, {"u2netp"}, {"resnet"}},
        am \in {{}, {TRUE}},
        ft \in {{-1}, {0}, {100}, {101}, {150}},
        bt \in {{30}, {101}} }

\* bodies with valid required fields that vary the other fields
OptionalBodies ==
    { Body({"u2net_human_seg"}, {FALSE}, {60}, {40}, bty, bc, bi, ar, mv, idv) :
        bty \in {{}, {"color"}, {"image"}, {"video"}},
        bc \in {{}, {"#ff0000"}},
        bi \in {{}, {"bg.png"}},
        ar \in {{}, {FALSE}},
        mv \in {{}, {FALSE}},
        idv \in {{}, {7}} }

Bodies == RequiredBodies \cup OptionalBodies

NoRequest == [method |-> "none"]

NoResponse == [status |-> 0]

(***************************************************************************)
(* server routes                                                           *)
(***************************************************************************)
\* app.get("/api/settings")
GetSettings ==
    /\ request' = [method |-> "GET"]
    /\ response' = [status |-> 200, json |-> getDefaultSettings]
    /\ UNCHANGED settings

\* app.post("/api/settings") with req.body = body
postSettings(body) ==
    /\ request' = [method |-> "POST", body |-> body]
    /\ IF settingsSchemaAccepts(body)
       THEN /\ settings' = updateSettings(settingsSchemaParse(body))
            /\ response' = [status |-> 200, json |-> settings']
       ELSE /\ response' = [status |-> 400]
            /\ UNCHANGED settings

PostSettings == \E body \in Bodies : postSettings(body)

(***************************************************************************)
(* SettingsSection: saving the form                                        *)
(***************************************************************************)
\* JSON.stringify(v): a string holding v's JSON text, whatever v is
JSONstringify(v) == [text |-> v]

\* the server's JSON body parser: the value the text stands for
JSONparse(s) == s.text

\* apiRequest with Content-Type application/json: fetch is given
\* JSON.stringify(body), and the server handles what that text parses to
apiRequest(body) == postSettings(JSONparse(JSONstringify(body)))

\* what the form hands to onSubmit: zodResolver(settingsSchema) has passed it
\* and stripped the id
FormValues ==
    [model : backgroundRemovalModels, alphaMatting : BOOLEAN,
     foregroundThreshold : {0, 100}, backgroundThreshold : {30},
     backgroundType : backgroundTypes, backgroundColor : {"#ff0000"},
     backgroundImage : {""}, allowResize : {TRUE}, allowMove : BOOLEAN]

\* onSubmit, mutation.mutate(data), with body: data
onSubmit(data) == apiRequest(data)

\* onSubmit, mutation.mutate(data), with body: JSON.stringify(data)
onSubmitStringified(data) == apiRequest(JSONstringify(data))

SettingsInit ==
    /\ settings = DefaultSettings
    /\ request = NoRequest
    /\ response = NoResponse


(***************************************************************************)
(* client/src/lib/backgroundRemover.ts: the model singleton                *)
(***************************************************************************)
\* init (module load), Home (preload effect), removeBackground (a user's run)
Callers == {"init", "Home", "removeBackground"}

MaxLoads == 3

NoModel == 0

\* the guard of loadModel: if (!bodyPixModel)
NeedsLoad(cached) == cached = NoModel

\* loadModel() up to its await: either bodyPix.load is started, or the cached
\* model is returned.
LoadModelCall(c) ==
    /\ callerPc[c] = "idle"
    /\ IF NeedsLoad(bodyPixModel)
       THEN /\ loadCalls < MaxLoads
            /\ loadCalls' = loadCalls + 1
            /\ callerLoad' = [callerLoad EXCEPT ![c] = loadCalls + 1]
            /\ callerPc' = [callerPc EXCEPT ![c] = "loading"]
            /\ UNCHANGED callerModel
       ELSE /\ callerModel' = [callerModel EXCEPT ![c] = bodyPixModel]
            /\ callerPc' = [callerPc EXCEPT ![c] = "returned"]
            /\ UNCHANGED <<loadCalls, callerLoad>>
    /\ UNCHANGED <<bodyPixModel, segmentCalls>>

\* bodyPix.load resolves with a new instance: bodyPixModel = await ...; return bodyPixModel
LoadResolved(c) ==
    /\ callerPc[c] = "loading"
    /\ bodyPixModel' = callerLoad[c]
    /\ callerModel' = [callerModel EXCEPT ![c] = callerLoad[c]]
    /\ callerPc' = [callerPc EXCEPT ![c] = "returned"]
    /\ UNCHANGED <<loadCalls, callerLoad, segmentCalls>>

\* a rejection after which loadModel() is simply called again
LoadRejectedRetries(c) ==
    /\ callerPc[c] = "loading"
    /\ callerPc' = [callerPc EXCEPT ![c] = "idle"]
    /\ UNCHANGED <<bodyPixModel, loadCalls, callerLoad, callerModel, segmentCalls>>

\* bodyPix.load rejects: loadModel throws, the cache is not assigned
LoadRejected(c) ==
    /\ callerPc[c] = "loading"
    /\ callerPc' = [callerPc EXCEPT ![c] = "threw"]
    /\ UNCHANGED <<bodyPixModel, loadCalls, callerLoad, callerModel, segmentCalls>>

MaxSegments == 2

\* removeBackground goes on with the model it got: await model.segmentPerson(...)
SegmentCall ==
    /\ callerPc["removeBackground"] = "returned"
    /\ segmentCalls < MaxSegments
    /\ segmentCalls' = segmentCalls + 1
    /\ callerPc' = [callerPc EXCEPT !["removeBackground"] = "segmenting"]
    /\ UNCHANGED <<bodyPixModel, loadCalls, callerLoad, callerModel>>

\* segmentPerson resolves and removeBackground runs to its return
SegmentResolved ==
    /\ callerPc["removeBackground"] = "segmenting"
    /\ callerPc' = [callerPc EXCEPT !["removeBackground"] = "segmented"]
    /\ UNCHANGED <<bodyPixModel, loadCalls, callerLoad, callerModel, segmentCalls>>

\* segmentPerson rejects: the catch of removeBackground rethrows
SegmentRejected ==
    /\ callerPc["removeBackground"] = "segmenting"
    /\ callerPc' = [callerPc EXCEPT !["removeBackground"] = "threw"]
    /\ UNCHANGED <<bodyPixModel, loadCalls, callerLoad, callerModel, segmentCalls>>

\* the user runs removeBackground again, after the last run has ended
RunAgain ==
    /\ callerPc["removeBackground"] \in {"segmented", "threw"}
    /\ callerPc' = [callerPc EXCEPT !["removeBackground"] = "idle"]
    /\ callerModel' = [callerModel EXCEPT !["removeBackground"] = NoModel]
    /\ callerLoad' = [callerLoad EXCEPT !["removeBackground"] = 0]
    /\ UNCHANGED <<bodyPixModel, loadCalls, segmentCalls>>

ModelInit ==
    /\ bodyPixModel = NoModel
    /\ loadCalls = 0
    /\ callerPc = [c \in Callers |-> "idle"]
    /\ callerLoad = [c \in Callers |-> 0]
    /\ callerModel = [c \in Callers |-> NoModel]
    /\ segmentCalls = 0

(***************************************************************************)
(* useImageUpload (shared/schema.ts) and UploadSection / Home              *)
(***************************************************************************)
Null == "null"

NoFile == [name |-> "", type |-> "", size |-> 0]

NoUrl == [kind |-> "null", of |-> ""]

NoResult == [original |-> NoUrl, processed |-> NoUrl]

Idle == [state |-> "idle", file |-> NoFile, preview |-> NoUrl, error |-> Null]

\* a mutation that has settled: status 'success', or 'error' with what was thrown
Settled(status, err) ==
    [state |-> status, file |-> NoFile, preview |-> NoUrl, error |-> err]

NoToast == ""

\* sizes in MB
Files ==
    { [name |-> "a.png", type |-> "image/png", size |-> 1],
      [name |-> "b.jpg", type |-> "image/jpeg", size |-> 2],
      [name |-> "big.png", type |-> "image/png", size |-> 11],
      [name |-> "doc.pdf", type |-> "application/pdf", size |-> 1] }

\* UploadSection's options to useImageUpload
maxSize == 10

allowedTypes == {"image/jpeg", "image/png", "image/webp", "image/jpg"}

\* reader.readAsDataURL(file)
readAsDataURL(f) == [kind |-> "data", of |-> f.name]

\* what removeBackground(preview) resolves with
ProcessedUrl(p) == [kind |-> "cutout", of |-> p.of]

\* what POST /api/upload answers
ServerResponse(f) ==
    [original |-> [kind |-> "/api/images", of |-> f.name],
     processed |-> [kind |-> "/api/images/processed", of |-> f.name]]

\* validateFile without its size check
validateFileTypeOnly(f) ==
    IF f.type \notin allowedTypes THEN "File type not supported"
    ELSE Null

\* validateFile: the error it sets, Null when the file is valid
validateFile(f) ==
    IF f.size > maxSize THEN "File size exceeds the maximum allowed size"
    ELSE IF f.type \notin allowedTypes THEN "File type not supported"
    ELSE Null

\* Home renders UploadSection only while there is no result
Mounted == result = NoResult

\* upload(file) up to its await
Upload(f) ==
    /\ Mounted
    /\ IF validateFile(f) # Null
       THEN /\ error' = validateFile(f)
            /\ UNCHANGED <<file, preview, isLoading, progress, reads>>
       ELSE /\ error' = Null
            /\ isLoading' = TRUE
            /\ progress' = 0
            /\ file' = f
            /\ reads' = reads \cup {f}
            /\ UNCHANGED preview
    /\ UNCHANGED <<mutation, processing, toast, result>>

\* the percentages reader.onprogress reports
Percentages == {50}

\* reader.onprogress while the read is in flight
ReadProgress(f) ==
    \E percentage \in Percentages :
        /\ Mounted
        /\ f \in reads
        /\ progress' = percentage
        /\ UNCHANGED <<file, preview, isLoading, error, reads, mutation, processing,
                       toast, result>>

\* reader.onload: the rest of upload(file)
ReadLoaded(f) ==
    /\ Mounted
    /\ f \in reads
    /\ reads' = reads \ {f}
    /\ preview' = readAsDataURL(f)
    /\ progress' = 100
    /\ isLoading' = FALSE
    /\ UNCHANGED <<file, error, mutation, processing, toast, result>>

\* reader.onerror
ReadFailed(f) ==
    /\ Mounted
    /\ f \in reads
    /\ reads' = reads \ {f}
    /\ error' = "Failed to generate preview"
    /\ isLoading' = FALSE
    /\ UNCHANGED <<file, preview, progress, mutation, processing, toast, result>>

\* reset(), from the Change button, which is rendered only with a preview
Reset ==
    /\ Mounted
    /\ preview # NoUrl
    /\ file' = NoFile
    /\ preview' = NoUrl
    /\ isLoading' = FALSE
    /\ error' = Null
    /\ progress' = 0
    /\ UNCHANGED <<reads, mutation, processing, toast, result>>

\* a Remove Background button that stays enabled while the mutation is pending
HandleUploadWhilePending ==
    /\ Mounted
    /\ file # NoFile
    /\ ~isLoading
    /\ mutation' = [state |-> "pending", file |-> file, preview |-> preview,
                    error |-> Null]
    /\ processing' = TRUE
    /\ UNCHANGED <<file, preview, isLoading, error, progress, reads, toast, result>>

\* handleUpload: the button is disabled without a file, while uploading and
\* while the mutation is pending; mutationFn starts with the rendered file and preview
HandleUpload ==
    /\ Mounted
    /\ file # NoFile
    /\ ~isLoading
    /\ mutation.state # "pending"
    /\ mutation' = [state |-> "pending", file |-> file, preview |-> preview,
                    error |-> Null]
    /\ processing' = TRUE
    /\ UNCHANGED <<file, preview, isLoading, error, progress, reads, toast, result>>

\* Home.handleUploadSuccess
handleUploadSuccess(data) == data

\* mutationFn resolves: onSuccess hands the data to Home, which then shows the
\* result instead of the upload section
MutationResolved ==
    /\ mutation.state = "pending"
    /\ IF mutation.preview # NoUrl
       THEN /\ result' = handleUploadSuccess(
                            [original |-> mutation.preview,
                             processed |-> ProcessedUrl(mutation.preview)])
            /\ processing' = FALSE
       ELSE /\ result' = handleUploadSuccess(ServerResponse(mutation.file))
            /\ UNCHANGED processing
    /\ mutation' = Settled("success", Null)
    /\ reads' = {}
    /\ UNCHANGED <<file, preview, isLoading, error, progress, toast>>

\* what removeBackground can throw: bodyPix.load rejecting, img.onerror,
\* segmentPerson rejecting, getContext('2d') returning null (canvas, mask canvas)
RemoveBackgroundFailures ==
    { "Model load failed", "Image load failed", "Segmentation failed",
      "Could not get canvas context", "Could not get mask context" }

\* what apiRequest can throw on the fallback path
ApiRequestFailures == { "API request failed" }

\* a rejection after which onSuccess runs all the same, with what there is
MutationRejectedPartial ==
    /\ mutation.state = "pending"
    /\ mutation' = Settled("error", "Segmentation failed")
    /\ processing' = FALSE
    /\ toast' = "Upload failed"
    /\ result' = handleUploadSuccess([original |-> mutation.preview,
                                      processed |-> NoUrl])
    /\ UNCHANGED <<file, preview, isLoading, error, progress, reads>>

\* mutationFn rejects: the catch rethrows, finally and onError clear processing,
\* onError shows the toast; onSuccess does not run
MutationRejected ==
    \E err \in (IF mutation.preview # NoUrl THEN RemoveBackgroundFailures
                                            ELSE ApiRequestFailures) :
        /\ mutation.state = "pending"
        /\ mutation' = Settled("error", err)
        /\ processing' = FALSE
        /\ toast' = "Upload failed"
        /\ UNCHANGED <<file, preview, isLoading, error, progress, reads, result>>

\* Home.handleReset: the result is dropped and a fresh UploadSection mounts
handleReset ==
    /\ result # NoResult
    /\ result' = NoResult
    /\ file' = NoFile
    /\ preview' = NoUrl
    /\ isLoading' = FALSE
    /\ error' = Null
    /\ progress' = 0
    /\ reads' = {}
    /\ mutation' = Idle
    /\ processing' = FALSE
    /\ UNCHANGED toast

UploadInit ==
    /\ file = NoFile
    /\ preview = NoUrl
    /\ isLoading = FALSE
    /\ error = Null
    /\ progress = 0
    /\ reads = {}
    /\ mutation = Idle
    /\ processing = FALSE
    /\ toast = NoToast
    /\ result = NoResult


(***************************************************************************)
(* Masks and pixels.  Arrays are functions over 0 .. n-1, as in the code.  *)
(***************************************************************************)
MaxW == 4

MaxH == 3

MaxFg == 3

MaxIter == 2

ImgMaxW == 2

ImgMaxH == 2

MaxOdd == 1

RECURSIVE SubsetsUpTo(_, _)
SubsetsUpTo(S, k) ==
    IF k = 0 THEN {{}}
    ELSE LET R == SubsetsUpTo(S, k - 1)
         IN  R \cup { T \cup {x} : T \in R, x \in S }

\* label arrays of n pixels with at most MaxFg foreground labels, and the
\* all-foreground one
Labels(n) ==
    { [i \in 0 .. n - 1 |-> IF i \in S THEN 1 ELSE 0] :
        S \in SubsetsUpTo(0 .. n - 1, MaxFg) \cup {0 .. n - 1} }

Opaque == [c |-> 200, a |-> 255]

OddPixels == { [c |-> 200, a |-> 128], [c |-> 0, a |-> 0] }

\* images of n pixels, all opaque but at most MaxOdd of them
Images(n) ==
    { [i \in 0 .. n - 1 |-> IF i \in S THEN odd ELSE Opaque] :
        S \in SubsetsUpTo(0 .. n - 1, MaxOdd), odd \in OddPixels }

NoArray == << >>

\* an options object without keys, and no threshold handed over yet
NoOptions == [k \in {} |-> 0]

NoThreshold == -1

(***************************************************************************)
(* refineMask                                                              *)
(***************************************************************************)
DefaultIterations == 2

\* the bounds of the two inner loops: 1 <= y < height - 1, 1 <= x < width - 1
InLoopRange(i, w, h) ==
    LET x == i % w
        y == i \div w
    IN  x >= 1 /\ x < w - 1 /\ y >= 1 /\ y < h - 1

\* the if of the loop body, reading the mask argument
Expands(mask, i, w) ==
    /\ mask[i] = 0
    /\ \/ mask[i - 1] = 1
       \/ mask[i + 1] = 1
       \/ mask[i - w] = 1
       \/ mask[i + w] = 1

\* one run of the two inner loops
RefinePass(mask, newMask, w, h) ==
    [i \in DOMAIN mask |->
        IF InLoopRange(i, w, h) /\ Expands(mask, i, w) THEN 1 ELSE newMask[i]]

RECURSIVE RefineLoop(_, _, _, _, _, _)
RefineLoop(mask, newMask, w, h, iter, iters) ==
    IF iter < iters
    THEN RefineLoop(mask, RefinePass(mask, newMask, w, h), w, h, iter + 1, iters)
    ELSE newMask

\* refineMask started from an empty array instead of a copy of the mask
refineMaskFromEmpty(mask, w, h, iters) ==
    RefineLoop(mask, [i \in DOMAIN mask |-> 0], w, h, 0, iters)

refineMask(mask, w, h, iters) ==
    RefineLoop(mask, mask, w, h, 0, iters)

(***************************************************************************)
(* removeBackground: the pixel operations of its variants                  *)
(***************************************************************************)
\* the alpha loop of the cutout: a background label sets alpha to 0
CutoutAlphaInverted(pixels, mask) ==
    [i \in DOMAIN pixels |->
        IF mask[i] # 0 THEN [pixels[i] EXCEPT !.a = 0] ELSE pixels[i]]

CutoutAlpha(pixels, mask) ==
    [i \in DOMAIN pixels |->
        IF mask[i] = 0 THEN [pixels[i] EXCEPT !.a = 0] ELSE pixels[i]]

\* the alpha loop that also writes 255 for a foreground label
CutoutAlphaOpaque(pixels, mask) ==
    [i \in DOMAIN pixels |->
        IF mask[i] = 0 THEN [pixels[i] EXCEPT !.a = 0]
                       ELSE [pixels[i] EXCEPT !.a = 255]]

\* the mask canvas: R = G = B = 255 or 0 by the label, A = 255
MaskImage(seg) ==
    [i \in DOMAIN seg |-> [c |-> IF seg[i] # 0 THEN 255 ELSE 0, a |-> 255]]

\* globalCompositeOperation = 'destination-in'; drawImage(src): the
\* destination is kept in proportion to the alpha of what is drawn
DestinationIn(dst, src) ==
    [i \in DOMAIN dst |->
        LET a == (dst[i].a * src[i].a) \div 255
        IN  [c |-> IF a = 0 THEN 0 ELSE dst[i].c, a |-> a]]

\* a canvas not yet created
NoCanvas == [width |-> 0, height |-> 0]

\* a canvas given the image's width for both of its sides
CanvasSizeSquare(w, h) == [width |-> w, height |-> w]

\* canvas.width = img.width; canvas.height = img.height
CanvasSize(w, h) == [width |-> w, height |-> h]

\* part_001: the alpha cutout
RemoveBackgroundCutout ==
    /\ pipeline = "loaded"
    /\ outMask' = segData
    /\ outPixels' = CutoutAlpha(srcPixels, segData)
    /\ pipeline' = "cutout"
    /\ canvas' = CanvasSize(width, height)
    /\ UNCHANGED <<width, height, segData, srcPixels, options, segmentationThreshold, iterations>>

\* part_002, first variant: optional refineMask, then the alpha cutout (blurEffect 0)
RemoveBackgroundRefined ==
    \E refineEdges \in BOOLEAN :
        LET mask == IF refineEdges
                    THEN refineMask(segData, width, height, DefaultIterations)
                    ELSE segData
        IN  /\ pipeline = "loaded"
            /\ outMask' = mask
            /\ outPixels' = CutoutAlpha(srcPixels, mask)
            /\ iterations' = IF refineEdges THEN DefaultIterations ELSE 0
            /\ pipeline' = "refinedCutout"
            /\ canvas' = CanvasSize(width, height)
            /\ UNCHANGED <<width, height, segData, srcPixels, options, segmentationThreshold>>

\* pages/Home.tsx variant: alpha 0 or 255 (featherEffect 0, blurEffect 0)
RemoveBackgroundParts ==
    /\ pipeline = "loaded"
    /\ outMask' = segData
    /\ outPixels' = CutoutAlphaOpaque(srcPixels, segData)
    /\ pipeline' = "partsCutout"
    /\ canvas' = CanvasSize(width, height)
    /\ UNCHANGED <<width, height, segData, srcPixels, options, segmentationThreshold, iterations>>

\* o.k ?? d: the default only when the key is absent
OrElse(o, k, d) == IF Has(o, k) THEN o[k] ELSE d

\* a number o.k as a condition: absent and 0 are falsy
Truthy(o, k) == Has(o, k) /\ o[k] # 0

\* a boolean o.k as a condition: absent and false are falsy
TruthyFlag(o, k) == Has(o, k) /\ o[k]

\* the channel levels a blurred pixel is given here, the two on either side
\* of the rethreshold test; a blur that does not run is given no choice
BlurLevels(runs) == IF runs THEN {128, 129} ELSE {0}

\* ctx.filter = 'blur(Npx)'; drawImage: the browser's blur.  Its result is
\* left open: the pixels above mid level take the level hi, the others lo.
Blur(img, hi, lo) ==
    [i \in DOMAIN img |->
        [c |-> IF img[i].c > 128 THEN hi ELSE lo, a |-> img[i].a]]

\* lib/backgroundRemover.ts: avg = (R + G + B) / 3; avg > 128 ? 255 : 0, alpha kept
RethresholdAvg(mask) ==
    [i \in DOMAIN mask |->
        [mask[i] EXCEPT !.c = IF mask[i].c + mask[i].c + mask[i].c > 3 * 128
                              THEN 255 ELSE 0]]

\* the blurred mask put back as it is
RethresholdNone(mask) == mask

\* part_002: any of R, G, B > 128 gives 255, else 0, alpha kept
RethresholdAny(mask) ==
    [i \in DOMAIN mask |->
        [mask[i] EXCEPT !.c = IF mask[i].c > 128 \/ mask[i].c > 128 \/ mask[i].c > 128
                              THEN 255 ELSE 0]]

\* globalCompositeOperation = 'source-over'; drawImage(src)
SourceOver(dst, src) ==
    [i \in DOMAIN dst |->
        LET rest == (dst[i].a * (255 - src[i].a)) \div 255
            a == src[i].a + rest
        IN  [c |-> IF a = 0 THEN 0
                   ELSE (src[i].c * src[i].a + dst[i].c * rest) \div a,
             a |-> a]]

\* the values tried for edgeDilation and edgeBlurAmount
Strengths == {0, 1}

\* settings objects with edgeDilation, edgeBlurAmount and refineEdges, each
\* either absent or given
EdgeOptions ==
    { Spread(Spread(Field("edgeDilation", d), Field("edgeBlurAmount", b)),
             Field("refineEdges", r)) :
        d \in {{}} \cup {{n} : n \in Strengths},
        b \in {{}} \cup {{n} : n \in Strengths},
        r \in {{}, {TRUE}} }

\* lib/backgroundRemover.ts after the segmentation: mask canvas, optional
\* dilation (blur and rethreshold), destination-in, optional edge blur
RemoveBackgroundLib(o) ==
    LET dilates == Truthy(o, "edgeDilation") /\ o["edgeDilation"] > 0
        blurs == Truthy(o, "edgeBlurAmount") /\ o["edgeBlurAmount"] > 0
    IN  \E hi, lo \in BlurLevels(dilates), hi2, lo2 \in BlurLevels(blurs) :
        LET filled == MaskImage(segData)
            mask == IF dilates THEN RethresholdAvg(Blur(filled, hi, lo))
                               ELSE filled
            cut == DestinationIn(srcPixels, mask)
            out == IF blurs THEN SourceOver(cut, Blur(cut, hi2, lo2))
                            ELSE cut
        IN  /\ pipeline = "loaded"
            /\ options' = o
            /\ outMask' = mask
            /\ outPixels' = out
            /\ pipeline' = "destinationIn"
            /\ canvas' = CanvasSize(width, height)
            /\ UNCHANGED <<width, height, segData, srcPixels,
                           segmentationThreshold, iterations>>

\* the options with both strengths 0
ZeroStrengths ==
    Spread(Field("edgeDilation", {0}), Field("edgeBlurAmount", {0}))

\* lib/backgroundRemover.ts: mask canvas and destination-in (edgeDilation 0,
\* edgeBlurAmount 0)
RemoveBackgroundDestinationIn ==
    RemoveBackgroundLib(ZeroStrengths)

\* part_002, second variant, after the segmentation: edgeDilation ?? 2,
\* the refineEdges redraw through a temporary canvas, destination-in,
\* edgeBlurAmount ?? 1
RemoveBackgroundEdges ==
    \E o \in EdgeOptions :
    \E hi, lo \in BlurLevels(OrElse(o, "edgeDilation", 2) > 0),
       hi2, lo2 \in BlurLevels(OrElse(o, "edgeBlurAmount", 1) > 0) :
        LET filled == MaskImage(segData)
            mask == IF OrElse(o, "edgeDilation", 2) > 0
                    THEN RethresholdAny(Blur(filled, hi, lo))
                    ELSE filled
            temp == DestinationIn(srcPixels, mask)
            drawn == IF TruthyFlag(o, "refineEdges")
                     THEN SourceOver(srcPixels, temp)
                     ELSE srcPixels
            cut == DestinationIn(drawn, mask)
            out == IF OrElse(o, "edgeBlurAmount", 1) > 0
                   THEN SourceOver(cut, Blur(cut, hi2, lo2))
                   ELSE cut
        IN  /\ pipeline = "loaded"
            /\ options' = o
            /\ outMask' = mask
            /\ outPixels' = out
            /\ pipeline' = "edges"
            /\ canvas' = CanvasSize(width, height)
            /\ UNCHANGED <<width, height, segData, srcPixels,
                           segmentationThreshold, iterations>>

\* a refineMask that expands the array it was given instead of a copy
RefineMaskInPlace ==
    \E n \in 0 .. MaxIter :
        /\ pipeline = "loaded"
        /\ iterations' = n
        /\ outMask' = refineMask(segData, width, height, n)
        /\ segData' = outMask'
        /\ pipeline' = "refined"
        /\ UNCHANGED <<canvas, width, height, srcPixels, options, segmentationThreshold,
                       outPixels>>

\* refineMask(mask, width, height, iterations) on its own: newMask is a copy
\* of mask and the only array written
RefineMask ==
    \E n \in 0 .. MaxIter :
        /\ pipeline = "loaded"
        /\ iterations' = n
        /\ outMask' = refineMask(segData, width, height, n)
        /\ pipeline' = "refined"
        /\ UNCHANGED <<canvas, width, height, segData, srcPixels, options, segmentationThreshold,
                       outPixels>>

\* an image and its labels from the model, before any pixel operation
CutoutInit ==
    /\ width \in 1 .. ImgMaxW
    /\ height \in 1 .. ImgMaxH
    /\ segData \in Labels(width * height)
    /\ srcPixels \in Images(width * height)
    /\ options = NoOptions
    /\ segmentationThreshold = NoThreshold
    /\ pipeline = "loaded"
    /\ iterations = 0
    /\ outMask = NoArray
    /\ outPixels = NoArray
    /\ canvas = NoCanvas

\* o.k || d: the default when the key is absent or its value is 0
Or(o, k, d) == IF Truthy(o, k) THEN o[k] ELSE d

\* the defaults of the variants: lib and part_001 50, part_002 10, Home.tsx 5
DefaultThresholds == {50, 10, 5}

\* settings objects with foregroundThreshold absent or anywhere in its range
ThresholdOptions ==
    { Field("foregroundThreshold", S) :
        S \in {{}} \cup { {n} : n \in ThresholdMin .. ThresholdMax } }

\* removeBackground up to await model.segmentPerson(img, {...}): the
\* segmentationThreshold it hands over is x / 100, kept here as x
SegmentPersonCall(d) ==
    \E o \in ThresholdOptions :
        /\ pipeline = "imageLoaded"
        /\ options' = o
        /\ segmentationThreshold' = Or(o, "foregroundThreshold", d)
        /\ pipeline' = "segmenting"
        /\ UNCHANGED <<canvas, width, height, segData, srcPixels, iterations, outMask,
                       outPixels>>

\* the image has loaded, the model has not been asked yet
SegmentInit ==
    /\ width = 1
    /\ height = 1
    /\ segData = NoArray
    /\ srcPixels = [i \in {0} |-> Opaque]
    /\ options = NoOptions
    /\ segmentationThreshold = NoThreshold
    /\ pipeline = "imageLoaded"
    /\ iterations = 0
    /\ outMask = NoArray
    /\ outPixels = NoArray
    /\ canvas = NoCanvas

\* a one-row image and its labels, before the variants with edge options
EdgesInit ==
    /\ width \in 1 .. ImgMaxW
    /\ height = 1
    /\ segData \in Labels(width * height)
    /\ srcPixels \in Images(width * height)
    /\ options = NoOptions
    /\ segmentationThreshold = NoThreshold
    /\ pipeline = "loaded"
    /\ iterations = 0
    /\ outMask = NoArray
    /\ outPixels = NoArray
    /\ canvas = NoCanvas

\* a label array and its dimensions, before refineMask
RefineInit ==
    /\ width \in 1 .. MaxW
    /\ height \in 1 .. MaxH
    /\ segData \in Labels(width * height)
    /\ srcPixels = NoArray
    /\ options = NoOptions
    /\ segmentationThreshold = NoThreshold
    /\ pipeline = "loaded"
    /\ iterations = 0
    /\ outMask = NoArray
    /\ outPixels = NoArray
    /\ canvas = NoCanvas

\* the pixel variables while another part runs
PixelsIdle ==
    /\ width = 0
    /\ height = 0
    /\ segData = NoArray
    /\ srcPixels = NoArray
    /\ options = NoOptions
    /\ segmentationThreshold = NoThreshold
    /\ pipeline = "none"
    /\ iterations = 0
    /\ outMask = NoArray
    /\ outPixels = NoArray
    /\ canvas = NoCanvas

(***************************************************************************)
(* ResultSection: the interactive transform                                *)
(***************************************************************************)
\* useQuery data before the first response: settings?.k reads nothing
Undefined == [k \in {} |-> 0]

Origin == [x |-> 0, y |-> 0]

MaxOffset == 1

\* clientX / clientY of a mouse event or of a touch
Pointers == [x : {0, 1}, y : {0, 1}]

\* e.touches.length
TouchCounts == {1, 2}

\* the values the slider reports: min 50, max 300, step 5
SliderValues == {50, 55, 295, 300}

ImageFormats == {"png", "jpg"}

Min(a, b) == IF a < b THEN a ELSE b

Max(a, b) == IF a > b THEN a ELSE b

\* positions further out than MaxOffset are left out
InView(p) ==
    /\ p.x \in -MaxOffset .. MaxOffset
    /\ p.y \in -MaxOffset .. MaxOffset

\* the /api/settings query resolves with the stored settings
SettingsQueryResolved ==
    /\ settingsData = Undefined
    /\ settingsData' = settings
    /\ UNCHANGED <<scale, position, isDragging, dragStart, event>>

\* a reset that forgets the position
resetTransformScaleOnly ==
    /\ TruthyFlag(settingsData, "allowMove") \/ TruthyFlag(settingsData, "allowResize")
    /\ scale' = 100
    /\ event' = "resetTransform"
    /\ UNCHANGED <<settingsData, position, isDragging, dragStart>>

\* the Reset button, rendered when moving or resizing is allowed
resetTransform ==
    /\ TruthyFlag(settingsData, "allowMove") \/ TruthyFlag(settingsData, "allowResize")
    /\ scale' = 100
    /\ position' = Origin
    /\ event' = "resetTransform"
    /\ UNCHANGED <<settingsData, isDragging, dragStart>>

\* a drag start that does not look at allowMove
DragStartsUngated(p, handler, ignored) ==
    /\ IF ignored
       THEN UNCHANGED <<isDragging, dragStart>>
       ELSE /\ isDragging' = TRUE
            /\ dragStart' = [x |-> p.x - position.x, y |-> p.y - position.y]
    /\ event' = handler
    /\ UNCHANGED <<settingsData, scale, position>>

\* the drag start shared by handleMouseDown and handleTouchStart
DragStarts(p, handler, ignored) ==
    /\ IF ~TruthyFlag(settingsData, "allowMove") \/ ignored
       THEN UNCHANGED <<isDragging, dragStart>>
       ELSE /\ isDragging' = TRUE
            /\ dragStart' = [x |-> p.x - position.x, y |-> p.y - position.y]
    /\ event' = handler
    /\ UNCHANGED <<settingsData, scale, position>>

\* the move shared by handleMouseMove and handleTouchMove
DragMoves(p, handler, ignored) ==
    LET new == [x |-> p.x - dragStart.x, y |-> p.y - dragStart.y]
    IN  /\ IF ~isDragging \/ ~TruthyFlag(settingsData, "allowMove") \/ ignored
           THEN UNCHANGED position
           ELSE /\ InView(new)
                /\ position' = new
        /\ event' = handler
        /\ UNCHANGED <<settingsData, scale, isDragging, dragStart>>

\* the end shared by handleMouseUp (also onMouseLeave) and handleTouchEnd
DragEnds(handler) ==
    /\ isDragging' = FALSE
    /\ event' = handler
    /\ UNCHANGED <<settingsData, scale, position, dragStart>>

handleMouseDown(p) == DragStarts(p, "handleMouseDown", FALSE)

handleMouseMove(p) == DragMoves(p, "handleMouseMove", FALSE)

handleMouseUp == DragEnds("handleMouseUp")

handleTouchStart(p, touches) == DragStarts(p, "handleTouchStart", touches # 1)

handleTouchMove(p, touches) == DragMoves(p, "handleTouchMove", touches # 1)

handleTouchEnd == DragEnds("handleTouchEnd")

\* zooming in without the upper limit
handleZoomInUnclamped ==
    /\ TruthyFlag(settingsData, "allowResize")
    /\ scale < 300
    /\ scale' = scale + 10
    /\ event' = "handleZoomIn"
    /\ UNCHANGED <<settingsData, position, isDragging, dragStart>>

\* the zoom-in button, rendered when resizing is allowed, disabled at scale >= 3:
\* setScale(prev => Math.min(prev + 0.1, 3))
handleZoomIn ==
    /\ TruthyFlag(settingsData, "allowResize")
    /\ scale < 300
    /\ scale' = Min(scale + 10, 300)
    /\ event' = "handleZoomIn"
    /\ UNCHANGED <<settingsData, position, isDragging, dragStart>>

\* the zoom-out button, disabled at scale <= 0.5:
\* setScale(prev => Math.max(prev - 0.1, 0.5))
handleZoomOut ==
    /\ TruthyFlag(settingsData, "allowResize")
    /\ scale > 50
    /\ scale' = Max(scale - 10, 50)
    /\ event' = "handleZoomOut"
    /\ UNCHANGED <<settingsData, position, isDragging, dragStart>>

\* the slider, rendered when resizing is allowed: setScale(newValue / 100)
onValueChange(newValue) ==
    /\ TruthyFlag(settingsData, "allowResize")
    /\ scale' = newValue
    /\ event' = "onValueChange"
    /\ UNCHANGED <<settingsData, position, isDragging, dragStart>>

\* the download drawn with the on-screen scale
DownloadPayloadScaled(fmt) ==
    [background |-> "none", image |-> result.processed, scale |-> scale,
     format |-> fmt]

\* what downloadMutation puts on its canvas and encodes: the background by
\* the settings, then the processed image at (0, 0) in its own size
DownloadPayload(fmt) ==
    [background |->
        IF Has(settingsData, "backgroundType") /\ settingsData.backgroundType = "color"
        THEN settingsData.backgroundColor
        ELSE IF Has(settingsData, "backgroundType")
                /\ settingsData.backgroundType = "image"
                /\ settingsData.backgroundImage # ""
        THEN settingsData.backgroundImage
        ELSE "none",
     image |-> result.processed,
     scale |-> 100,
     format |-> fmt]

\* the stored settings the result view may meet
ViewSettings ==
    { [DefaultSettings EXCEPT !.allowMove = mv, !.allowResize = ar] :
        mv \in BOOLEAN, ar \in BOOLEAN }
    \cup { [DefaultSettings EXCEPT !.allowMove = FALSE,
                                   !.backgroundType = "color"] }

\* Home after handleUploadSuccess: the result of a.png is shown
ResultShown ==
    /\ file \in { f \in Files : f.name = "a.png" }
    /\ preview = readAsDataURL(file)
    /\ isLoading = FALSE
    /\ error = Null
    /\ progress = 100
    /\ reads = {}
    /\ mutation = Settled("success", Null)
    /\ processing = FALSE
    /\ toast = NoToast
    /\ result = handleUploadSuccess([original |-> preview,
                                     processed |-> ProcessedUrl(preview)])

\* useState initial values; the query has no data yet
TransformInit ==
    /\ settingsData = Undefined
    /\ scale = 100
    /\ position = Origin
    /\ isDragging = FALSE
    /\ dragStart = Origin
    /\ event = "none"

(***************************************************************************)
(* ResultSection: the download                                             *)
(***************************************************************************)
\* useState / useMutation initial values; nothing downloaded yet
DownloadInit ==
    /\ format = "png"
    /\ downloadMutation = "idle"
    /\ downloadOptions = Undefined
    /\ downloads = <<>>

MaxDownloads == 2

NoLink == [name |-> "", encoding |-> "", layers |-> <<>>]

\* canvas.toDataURL(type): the browser encodes PNG unless the type names
\* another encoder it has; 'image/jpg' names none
toDataURLAnyType(type) ==
    IF type \in {"image/jpeg", "image/jpg"} THEN "jpeg"
    ELSE IF type = "image/webp" THEN "webp"
    ELSE "png"

toDataURL(type) ==
    IF type = "image/jpeg" THEN "jpeg"
    ELSE IF type = "image/webp" THEN "webp"
    ELSE "png"

\* the stored settings a download may meet: each backdrop type, the image
\* type with and without an image
DownloadSettings ==
    { DefaultSettings,
      [DefaultSettings EXCEPT !.backgroundType = "color"],
      [DefaultSettings EXCEPT !.backgroundType = "image"],
      [DefaultSettings EXCEPT !.backgroundType = "image",
                              !.backgroundImage = "/bg.png"] }

\* the format buttons
setFormat(f) ==
    /\ format' = f
    /\ UNCHANGED <<downloadMutation, downloadOptions, downloads, toast>>

\* the Download button, disabled while downloadMutation.isPending; quality is
\* parsed with the format and read nowhere afterwards
handleDownload ==
    /\ downloadMutation # "pending"
    /\ Len(downloads) < MaxDownloads
    /\ downloadOptions' = [format |-> format]
    /\ downloadMutation' = "pending"
    /\ UNCHANGED <<format, downloads, toast>>

\* what the canvas holds under the processed image: the fill colour, or the
\* backdrop image when drawImage finds it available, or nothing
Backdrop(s, bgAvailable) ==
    IF Has(s, "backgroundType") /\ s.backgroundType = "color"
    THEN <<[kind |-> "color", of |-> s.backgroundColor]>>
    ELSE IF Has(s, "backgroundType") /\ s.backgroundType = "image"
            /\ s.backgroundImage # "" /\ bgAvailable
    THEN <<[kind |-> "image", of |-> s.backgroundImage]>>
    ELSE <<>>

\* mutationFn: it sets img.src and returns { success: true } at once, and
\* onSuccess shows its toast; the image has only begun to load
downloadMutationFn ==
    /\ downloadMutation = "pending"
    /\ downloads' = Append(downloads,
                          [options |-> downloadOptions, settings |-> settingsData,
                           image |-> result.processed, state |-> "loading",
                           file |-> NoLink])
    /\ downloadMutation' = "success"
    /\ toast' = "Image downloaded"
    /\ UNCHANGED <<format, downloadOptions>>

\* img.onload of download i. getContext may give null, and then nothing is
\* saved. bgImg has been created the line before it is drawn: whether the
\* browser has it available by then is not the program's to decide
imgOnload(i, ctx, bgAvailable) ==
    /\ i \in 1 .. Len(downloads)
    /\ downloads[i].state = "loading"
    /\ LET d == downloads[i]
       IN  downloads' =
             [downloads EXCEPT ![i] =
                IF ~ctx THEN [d EXCEPT !.state = "no context"]
                ELSE [d EXCEPT
                        !.state = "saved",
                        !.file = [name |-> "background_removed." \o d.options.format,
                                  encoding |-> toDataURL("image/" \o d.options.format),
                                  layers |-> Backdrop(d.settings, bgAvailable)
                                                \o <<d.image>>]]]
    /\ UNCHANGED <<format, downloadMutation, downloadOptions, toast>>

\* the processed image fails to load: img has no onerror, nothing runs
imgError(i) ==
    /\ i \in 1 .. Len(downloads)
    /\ downloads[i].state = "loading"
    /\ downloads' = [downloads EXCEPT ![i].state = "error"]
    /\ UNCHANGED <<format, downloadMutation, downloadOptions, toast>>

\* downloadImage(dataUrl, filename, format): the link is clicked with the
\* data URL as it is, a PNG from removeBackground
downloadImage(dataUrl, filename, fmt) ==
    [name |-> filename \o "." \o fmt,
     encoding |-> toDataURL("image/png"),
     layers |-> <<dataUrl>>]

\* the mutationFn that calls downloadImage, and its onSuccess
downloadMutationFnDirect ==
    /\ downloadMutation = "pending"
    /\ downloads' = Append(downloads,
                          [options |-> downloadOptions, settings |-> settingsData,
                           image |-> result.processed, state |-> "saved",
                           file |-> downloadImage(result.processed,
                                                  "background_removed",
                                                  downloadOptions.format)])
    /\ downloadMutation' = "success"
    /\ toast' = "Image downloaded"
    /\ UNCHANGED <<format, downloadOptions>>

(***************************************************************************)
(* The server's stored files and their hourly cleanup                      *)
(***************************************************************************)
\* the files the server may hold at one time
MaxFiles == 2

\* 60 * 60 * 1000 ms, in ticks
Hour == 2

\* registerRoutes has run: both directories exist, the interval is set
CleanupInit ==
    /\ uploadsDir = [id \in {} |-> 0]
    /\ processedDir = [id \in {} |-> 0]
    /\ timer = Hour
    /\ unlinked = {}

\* POST /api/upload: multer stores the upload under a new name, the handler
\* copies it to processed_images, which may fail
PostUpload(id) ==
    LET Created(dir) ==
            [i \in DOMAIN dir \cup {id} |-> IF i = id THEN 0 ELSE dir[i]]
    IN  /\ id \notin DOMAIN uploadsDir \cup DOMAIN processedDir
        /\ uploadsDir' = Created(uploadsDir)
        /\ \E copied \in BOOLEAN :
              processedDir' = IF copied THEN Created(processedDir) ELSE processedDir
        /\ UNCHANGED <<timer, unlinked>>

\* time passes, up to the moment the interval fires; ages beyond an hour
\* are all the cleanup can tell apart
Tick ==
    LET Aged(dir) ==
            [i \in DOMAIN dir |-> IF dir[i] > Hour THEN dir[i] ELSE dir[i] + 1]
    IN  /\ timer > 0
        /\ timer' = timer - 1
        /\ uploadsDir' = Aged(uploadsDir)
        /\ processedDir' = Aged(processedDir)
        /\ UNCHANGED unlinked

\* what the loop over a directory leaves of it: it unlinks the files with
\* stats.ctimeMs < oneHourAgo
Remaining(dir) == [i \in { j \in DOMAIN dir : dir[j] <= Hour } |-> dir[i]]

\* a cleanup that looks at temp_uploads only
cleanupUploadsOnly ==
    /\ timer = 0
    /\ uploadsDir' = Remaining(uploadsDir)
    /\ unlinked' = { <<"temp_uploads", i>> : i \in DOMAIN uploadsDir \ DOMAIN uploadsDir' }
    /\ timer' = Hour
    /\ UNCHANGED processedDir

\* the setInterval callback: both directories are read and every file whose
\* ctime is more than an hour back is unlinked
cleanup ==
    /\ timer = 0
    /\ uploadsDir' = Remaining(uploadsDir)
    /\ processedDir' = Remaining(processedDir)
    /\ unlinked' = { <<"temp_uploads", i>> : i \in DOMAIN uploadsDir \ DOMAIN uploadsDir' }
                    \cup { <<"processed_images", i>> :
                             i \in DOMAIN processedDir \ DOMAIN processedDir' }
    /\ timer' = Hour

(***************************************************************************)
(* Specifications                                                          *)
(***************************************************************************)
SettingsNext ==
    \/ GetSettings /\ UNCHANGED <<modelVars, uploadVars, pixelVars, transformVars, downloadVars, cleanupVars>>
    \/ PostSettings /\ UNCHANGED <<modelVars, uploadVars, pixelVars, transformVars, downloadVars, cleanupVars>>

\* the state after construction, with no image in the pixel pipeline
Init ==
    SettingsInit /\ ModelInit /\ UploadInit /\ PixelsIdle /\ TransformInit /\ DownloadInit /\ CleanupInit

SpecSettings == Init /\ [][SettingsNext]_vars

ModelNext ==
    \/ \E c \in Callers : LoadModelCall(c) /\ UNCHANGED <<settingsVars, uploadVars, pixelVars, transformVars, downloadVars, cleanupVars>>
    \/ \E c \in Callers : LoadResolved(c) /\ UNCHANGED <<settingsVars, uploadVars, pixelVars, transformVars, downloadVars, cleanupVars>>
    \/ \E c \in Callers : LoadRejected(c) /\ UNCHANGED <<settingsVars, uploadVars, pixelVars, transformVars, downloadVars, cleanupVars>>
    \/ SegmentCall /\ UNCHANGED <<settingsVars, uploadVars, pixelVars, transformVars, downloadVars, cleanupVars>>
    \/ SegmentResolved /\ UNCHANGED <<settingsVars, uploadVars, pixelVars, transformVars, downloadVars, cleanupVars>>
    \/ SegmentRejected /\ UNCHANGED <<settingsVars, uploadVars, pixelVars, transformVars, downloadVars, cleanupVars>>
    \/ RunAgain /\ UNCHANGED <<settingsVars, uploadVars, pixelVars, transformVars, downloadVars, cleanupVars>>

SpecModel == Init /\ [][ModelNext]_vars

UploadNext ==
    \/ \E f \in Files : Upload(f) /\ UNCHANGED <<settingsVars, modelVars, pixelVars, transformVars, downloadVars, cleanupVars>>
    \/ \E f \in Files : ReadProgress(f) /\ UNCHANGED <<settingsVars, modelVars, pixelVars, transformVars, downloadVars, cleanupVars>>
    \/ \E f \in Files : ReadLoaded(f) /\ UNCHANGED <<settingsVars, modelVars, pixelVars, transformVars, downloadVars, cleanupVars>>
    \/ \E f \in Files : ReadFailed(f) /\ UNCHANGED <<settingsVars, modelVars, pixelVars, transformVars, downloadVars, cleanupVars>>
    \/ Reset /\ UNCHANGED <<settingsVars, modelVars, pixelVars, transformVars, downloadVars, cleanupVars>>
    \/ HandleUpload /\ UNCHANGED <<settingsVars, modelVars, pixelVars, transformVars, downloadVars, cleanupVars>>
    \/ MutationResolved /\ UNCHANGED <<settingsVars, modelVars, pixelVars, transformVars, downloadVars, cleanupVars>>
    \/ MutationRejected /\ UNCHANGED <<settingsVars, modelVars, pixelVars, transformVars, downloadVars, cleanupVars>>
    \/ handleReset /\ UNCHANGED <<settingsVars, modelVars, pixelVars, transformVars, downloadVars, cleanupVars>>

SpecUpload == Init /\ [][UploadNext]_vars

CutoutNext ==
    \/ RemoveBackgroundCutout /\ UNCHANGED <<settingsVars, modelVars, uploadVars, transformVars, downloadVars, cleanupVars>>
    \/ RemoveBackgroundRefined /\ UNCHANGED <<settingsVars, modelVars, uploadVars, transformVars, downloadVars, cleanupVars>>
    \/ RemoveBackgroundParts /\ UNCHANGED <<settingsVars, modelVars, uploadVars, transformVars, downloadVars, cleanupVars>>
    \/ RemoveBackgroundDestinationIn /\ UNCHANGED <<settingsVars, modelVars, uploadVars, transformVars, downloadVars, cleanupVars>>

\* the state after construction, with an image and its labels loaded
InitCutout ==
    SettingsInit /\ ModelInit /\ UploadInit /\ CutoutInit /\ TransformInit /\ DownloadInit /\ CleanupInit

SpecCutout == InitCutout /\ [][CutoutNext]_vars

EdgesNext ==
    \/ \E o \in { e \in EdgeOptions : ~Has(e, "refineEdges") } : RemoveBackgroundLib(o) /\ UNCHANGED <<settingsVars, modelVars, uploadVars, transformVars, downloadVars, cleanupVars>>
    \/ RemoveBackgroundEdges /\ UNCHANGED <<settingsVars, modelVars, uploadVars, transformVars, downloadVars, cleanupVars>>

\* the state after construction, with a one-row image and its labels loaded
InitEdges ==
    SettingsInit /\ ModelInit /\ UploadInit /\ EdgesInit /\ TransformInit /\ DownloadInit /\ CleanupInit

SpecEdges == InitEdges /\ [][EdgesNext]_vars

SegmentNext ==
    \E d \in DefaultThresholds : SegmentPersonCall(d) /\ UNCHANGED <<settingsVars, modelVars, uploadVars, transformVars, downloadVars, cleanupVars>>

\* the state after construction, with an image loaded and not yet segmented
InitSegment ==
    SettingsInit /\ ModelInit /\ UploadInit /\ SegmentInit /\ TransformInit /\ DownloadInit /\ CleanupInit

SpecSegment == InitSegment /\ [][SegmentNext]_vars

TransformNext ==
    \/ SettingsQueryResolved /\ UNCHANGED <<settingsVars, modelVars, uploadVars, pixelVars, downloadVars, cleanupVars>>
    \/ resetTransform /\ UNCHANGED <<settingsVars, modelVars, uploadVars, pixelVars, downloadVars, cleanupVars>>
    \/ \E p \in Pointers : handleMouseDown(p) /\ UNCHANGED <<settingsVars, modelVars, uploadVars, pixelVars, downloadVars, cleanupVars>>
    \/ \E p \in Pointers : handleMouseMove(p) /\ UNCHANGED <<settingsVars, modelVars, uploadVars, pixelVars, downloadVars, cleanupVars>>
    \/ handleMouseUp /\ UNCHANGED <<settingsVars, modelVars, uploadVars, pixelVars, downloadVars, cleanupVars>>
    \/ \E p \in Pointers, n \in TouchCounts : handleTouchStart(p, n) /\ UNCHANGED <<settingsVars, modelVars, uploadVars, pixelVars, downloadVars, cleanupVars>>
    \/ \E p \in Pointers, n \in TouchCounts : handleTouchMove(p, n) /\ UNCHANGED <<settingsVars, modelVars, uploadVars, pixelVars, downloadVars, cleanupVars>>
    \/ handleTouchEnd /\ UNCHANGED <<settingsVars, modelVars, uploadVars, pixelVars, downloadVars, cleanupVars>>
    \/ handleZoomIn /\ UNCHANGED <<settingsVars, modelVars, uploadVars, pixelVars, downloadVars, cleanupVars>>
    \/ handleZoomOut /\ UNCHANGED <<settingsVars, modelVars, uploadVars, pixelVars, downloadVars, cleanupVars>>
    \/ \E v \in SliderValues : onValueChange(v) /\ UNCHANGED <<settingsVars, modelVars, uploadVars, pixelVars, downloadVars, cleanupVars>>

\* the result view right after it has mounted
InitTransform ==
    /\ settings \in ViewSettings
    /\ request = NoRequest
    /\ response = NoResponse
    /\ ModelInit
    /\ ResultShown
    /\ PixelsIdle
    /\ TransformInit /\ DownloadInit /\ CleanupInit

SpecTransform == InitTransform /\ [][TransformNext]_vars

\* the download steps leave every other part of the upload state alone
DownloadFrame ==
    UNCHANGED <<file, preview, isLoading, error, progress, reads, mutation,
                processing, result>>

DownloadNext ==
    \/ SettingsQueryResolved /\ UNCHANGED <<settingsVars, modelVars, uploadVars, pixelVars, downloadVars, cleanupVars>>
    \/ \E f \in ImageFormats : setFormat(f) /\ DownloadFrame /\ UNCHANGED <<settingsVars, modelVars, pixelVars, transformVars, cleanupVars>>
    \/ handleDownload /\ DownloadFrame /\ UNCHANGED <<settingsVars, modelVars, pixelVars, transformVars, cleanupVars>>
    \/ downloadMutationFn /\ DownloadFrame /\ UNCHANGED <<settingsVars, modelVars, pixelVars, transformVars, cleanupVars>>
    \/ downloadMutationFnDirect /\ DownloadFrame /\ UNCHANGED <<settingsVars, modelVars, pixelVars, transformVars, cleanupVars>>
    \/ \E i \in 1 .. MaxDownloads, ctx \in BOOLEAN, bgAvailable \in BOOLEAN :
          imgOnload(i, ctx, bgAvailable) /\ DownloadFrame /\ UNCHANGED <<settingsVars, modelVars, pixelVars, transformVars, cleanupVars>>
    \/ \E i \in 1 .. MaxDownloads : imgError(i) /\ DownloadFrame /\ UNCHANGED <<settingsVars, modelVars, pixelVars, transformVars, cleanupVars>>

\* the result view right after it has mounted, under each backdrop setting
InitDownload ==
    /\ settings \in DownloadSettings
    /\ request = NoRequest
    /\ response = NoResponse
    /\ ModelInit
    /\ ResultShown
    /\ PixelsIdle
    /\ TransformInit /\ DownloadInit /\ CleanupInit

SpecDownload == InitDownload /\ [][DownloadNext]_vars

SaveNext ==
    \/ \E data \in FormValues : onSubmit(data) /\ UNCHANGED <<modelVars, uploadVars, pixelVars, transformVars, downloadVars, cleanupVars>>
    \/ \E data \in FormValues : onSubmitStringified(data) /\ UNCHANGED <<modelVars, uploadVars, pixelVars, transformVars, downloadVars, cleanupVars>>
    \/ GetSettings /\ UNCHANGED <<modelVars, uploadVars, pixelVars, transformVars, downloadVars, cleanupVars>>

SpecSave == Init /\ [][SaveNext]_vars

CleanupNext ==
    \/ \E id \in 1 .. MaxFiles : PostUpload(id) /\ UNCHANGED <<settingsVars, modelVars, uploadVars, pixelVars, transformVars, downloadVars>>
    \/ Tick /\ UNCHANGED <<settingsVars, modelVars, uploadVars, pixelVars, transformVars, downloadVars>>
    \/ cleanup /\ UNCHANGED <<settingsVars, modelVars, uploadVars, pixelVars, transformVars, downloadVars>>

SpecCleanup == Init /\ [][CleanupNext]_vars

\* the clock runs and the interval's callback is called when it is due
SpecCleanupFair ==
    /\ SpecCleanup
    /\ WF_vars(Tick /\ UNCHANGED <<settingsVars, modelVars, uploadVars, pixelVars, transformVars, downloadVars>>)
    /\ WF_vars(cleanup /\ UNCHANGED <<settingsVars, modelVars, uploadVars, pixelVars, transformVars, downloadVars>>)

RefineNext ==
    RefineMask /\ UNCHANGED <<settingsVars, modelVars, uploadVars, transformVars, downloadVars, cleanupVars>>

\* the state after construction, with a label array for refineMask
InitRefine ==
    SettingsInit /\ ModelInit /\ UploadInit /\ RefineInit /\ TransformInit /\ DownloadInit /\ CleanupInit

SpecRefine == InitRefine /\ [][RefineNext]_vars


(***************************************************************************)
(* Claims                                                                  *)
(***************************************************************************)
Loading == { c \in Callers : callerPc[c] = "loading" }

\* C1: loadModel() calls that overlap share one bodyPix.load, and every call
\* that has returned holds the same model instance.
C1_SingleInitialization ==
    /\ \A c, d \in Loading : callerLoad[c] = callerLoad[d]
    /\ \A c, d \in Callers :
          (callerModel[c] # NoModel /\ callerModel[d] # NoModel)
              => callerModel[c] = callerModel[d]

\* C2: the preview and the result handed to Home belong to the selected file
\* (once that file's own read has finished), and are empty without a file.
C2_NoStaleWrite ==
    /\ file = NoFile => (preview = NoUrl /\ result = NoResult)
    /\ (file # NoFile /\ file \notin reads /\ preview # NoUrl)
          => preview = readAsDataURL(file)
    /\ (file # NoFile /\ result # NoResult) => result.original.of = file.name

\* C3: destination-in against the mask canvas gives the alpha of the simple
\* cutout: 0 where the label is background, the source's alpha elsewhere.
C3_DestinationInIsCutout ==
    pipeline = "destinationIn" =>
        \A i \in DOMAIN srcPixels :
            outPixels[i].a = IF segData[i] = 0 THEN 0 ELSE srcPixels[i].a

\* C4: in the alpha-cutout variants every pixel whose mask value is
\* background has alpha 0 in the output (blur and feathering off).
C4_BackgroundTransparent ==
    pipeline \in {"cutout", "refinedCutout"} =>
        \A i \in DOMAIN outMask : outMask[i] = 0 => outPixels[i].a = 0

\* an all-background 2x2 label array over a fully opaque source was cut out
C4_Witness ==
    /\ pipeline = "cutout"
    /\ width = 2 /\ height = 2
    /\ \A i \in DOMAIN segData : segData[i] = 0 /\ srcPixels[i].a = 255
    /\ \A i \in DOMAIN outPixels : outPixels[i].a = 0

\* C5: the cutout of the Home.tsx variant is a hard split into unchanged
\* source pixels and pixels of alpha 0; all-foreground labels change nothing.
C5_HardBinarySplit ==
    pipeline = "partsCutout" =>
        /\ \A i \in DOMAIN outPixels :
              outPixels[i] = srcPixels[i] \/ outPixels[i].a = 0
        /\ (\A i \in DOMAIN segData : segData[i] = 1) => outPixels = srcPixels

\* what the claims call a body that fails validation
OutOfRange(n) == n < 0 \/ n > 100

FailsValidation(body) ==
    \/ ~Has(body, "model")
    \/ body["model"] \notin {"u2net", "u2netp", "u2net_human_seg"}
    \/ ~Has(body, "alphaMatting")
    \/ ~Has(body, "foregroundThreshold")
    \/ OutOfRange(body["foregroundThreshold"])
    \/ ~Has(body, "backgroundThreshold")
    \/ OutOfRange(body["backgroundThreshold"])
    \/ /\ Has(body, "backgroundType")
       /\ body["backgroundType"] \notin {"transparent", "color", "image"}

\* C6: a POST whose body fails validation is answered with an error and
\* leaves the stored record as it was; a GET returns the stored record.
C6_InvalidPostRejected ==
    [][ /\ (request'.method = "POST" /\ FailsValidation(request'.body))
            => (response'.status = 400 /\ settings' = settings)
        /\ request'.method = "GET"
            => (response'.json = settings /\ settings' = settings)
      ]_vars

\* foregroundThreshold = 150 was posted to a store that an earlier POST had
\* changed, and was refused
C6_Witness ==
    /\ request.method = "POST"
    /\ Has(request.body, "foregroundThreshold")
    /\ request.body["foregroundThreshold"] = 150
    /\ response.status = 400
    /\ settings # DefaultSettings

\* C7: the stored record always has both thresholds in 0..100, a known
\* background type and a supported model.
C7_StoredSettingsValid ==
    /\ settings.foregroundThreshold \in 0 .. 100
    /\ settings.backgroundThreshold \in 0 .. 100
    /\ settings.backgroundType \in {"transparent", "color", "image"}
    /\ settings.model \in {"u2net", "u2netp", "u2net_human_seg"}

\* the store holds values a POST put there, and has since refused a bad POST
C7_Witness ==
    /\ settings.foregroundThreshold = 100
    /\ settings.model = "u2netp"
    /\ request.method = "POST"
    /\ response.status = 400

\* C8: an accepted POST stores the request's value for every field the
\* request carries and keeps the stored value of every field it does not.
C8_MergeKeepsAbsentFields ==
    [][ (request'.method = "POST" /\ response'.status = 200) =>
            \A k \in DOMAIN settings :
                /\ (k \in DOMAIN request'.body /\ k # "id")
                      => settings'[k] = request'.body[k]
                /\ k \notin DOMAIN request'.body => settings'[k] = settings[k]
      ]_vars

Count(m) == Cardinality({ i \in DOMAIN m : m[i] = 1 })

Neighbours(i, w, h) ==
    LET x == i % w
        y == i \div w
    IN  (IF x > 0 THEN {i - 1} ELSE {}) \cup (IF x < w - 1 THEN {i + 1} ELSE {})
        \cup (IF y > 0 THEN {i - w} ELSE {}) \cup (IF y < h - 1 THEN {i + w} ELSE {})

\* the one-step rule: a background pixel with a foreground neighbour flips
DilateStep(m, w, h) ==
    [i \in DOMAIN m |->
        IF m[i] = 0 /\ \E j \in Neighbours(i, w, h) : m[j] = 1 THEN 1 ELSE m[i]]

RECURSIVE DilateN(_, _, _, _)
DilateN(m, w, h, n) ==
    IF n = 0 THEN m ELSE DilateN(DilateStep(m, w, h), w, h, n - 1)

\* C10: refineMask with N iterations equals the one-step rule applied N
\* times, each step reading the previous step's output.
C10_NStepDilation ==
    pipeline = "refined" => outMask = DilateN(segData, width, height, iterations)


\* destination-in against the mask filled from the labels, nothing else applied
UnrefinedCutout == DestinationIn(srcPixels, MaskImage(segData))

ZeroStrength ==
    /\ Has(options, "edgeDilation") /\ options["edgeDilation"] = 0
    /\ Has(options, "edgeBlurAmount") /\ options["edgeBlurAmount"] = 0

\* C11: with edgeDilation 0 and edgeBlurAmount 0, removeBackground gives the
\* mask filled from the labels and the output of the unrefined cutout.
C11_ZeroStrengthNoOp ==
    (pipeline \in {"destinationIn", "edges"} /\ ZeroStrength) =>
        /\ outMask = MaskImage(segData)
        /\ outPixels = UnrefinedCutout


\* the dilation block ran: edgeDilation && edgeDilation > 0 in the lib variant,
\* (edgeDilation ?? 2) > 0 in the part_002 variant
Dilated ==
    \/ pipeline = "destinationIn" /\ Has(options, "edgeDilation")
                                  /\ options["edgeDilation"] > 0
    \/ pipeline = "edges" /\ (Has(options, "edgeDilation")
                                  => options["edgeDilation"] > 0)

\* C12: the mask canvas holds 255 at a foreground label and 0 at a background
\* label, and after the blur-and-rethreshold dilation every mask value is
\* still 0 or 255.
C12_MaskIsBinary ==
    pipeline \in {"destinationIn", "edges"} =>
        /\ \A i \in DOMAIN outMask : outMask[i].c \in {0, 255}
        /\ ~Dilated =>
              \A i \in DOMAIN segData :
                  outMask[i].c = IF segData[i] = 1 THEN 255 ELSE 0

\* a dilation that changed a two-valued mask, which is two-valued afterwards
C12_Witness ==
    /\ pipeline = "edges"
    /\ Dilated
    /\ outMask # MaskImage(segData)
    /\ \E i, j \in DOMAIN outMask : outMask[i].c = 255 /\ outMask[j].c = 0


\* C13: for every foregroundThreshold given, 0 and 100 included, the threshold
\* handed to the model is that setting over 100; a default is used only when
\* the setting is absent.
C13_ThresholdIsSetting ==
    (pipeline = "segmenting" /\ Has(options, "foregroundThreshold")) =>
        segmentationThreshold = options["foregroundThreshold"]


\* C14: a run that rejected has stored nothing and has told the user: the
\* page holds no result, onSuccess did not run, and the failure toast is up;
\* a result that is stored is a complete pair of original and processed image.
C14_AllOrNothing ==
    /\ mutation.state = "error" =>
          /\ result = NoResult
          /\ toast = "Upload failed"
          /\ ~processing
    /\ result # NoResult =>
          /\ result.original # NoUrl
          /\ result.processed.kind \in {"cutout", "/api/images/processed"}

\* removeBackground rejected in its inference step, for a file with a preview
C14_Witness ==
    /\ mutation.state = "error"
    /\ mutation.error = "Segmentation failed"
    /\ preview # NoUrl
    /\ result = NoResult

Allowed(f) == f.size <= maxSize /\ f.type \in allowedTypes

\* C15: upload of a file that is too large or of a disallowed type sets the
\* error for that defect and leaves file, preview, isLoading and progress as
\* they were; no read, no removeBackground and no server upload ever runs
\* for such a file.
C15_InvalidFileRejected ==
    /\ [](/\ file # NoFile => Allowed(file)
          /\ \A f \in reads : Allowed(f)
          /\ mutation.state = "pending" => Allowed(mutation.file))
    /\ [][\A f \in Files :
            (~Allowed(f) /\ Upload(f)) =>
                /\ error' = IF f.size > maxSize
                            THEN "File size exceeds the maximum allowed size"
                            ELSE "File type not supported"
                /\ UNCHANGED <<file, preview, isLoading, progress, reads,
                               mutation, processing, result>>]_vars

\* big.png was refused while a.png stays selected with its preview
C15_Witness ==
    /\ error = "File size exceeds the maximum allowed size"
    /\ file.name = "a.png"
    /\ preview = readAsDataURL(file)
    /\ progress = 100


\* C16: a failed load or inference ends its call: the cache is not assigned
\* by a failure, nothing is tried again on its own, bodyPix.load and
\* segmentPerson start only as the one step of a call or run that reaches
\* them, and only the user starts a run again after it has ended.
C16_NoAutomaticRetry ==
    [][/\ \A c \in Callers :
             /\ (callerPc[c] = "loading" /\ callerPc'[c] = "threw") =>
                    /\ bodyPixModel' = bodyPixModel
                    /\ callerModel'[c] = NoModel
             /\ (callerPc[c] # "idle" /\ callerPc'[c] = "idle") =>
                    /\ c = "removeBackground"
                    /\ callerPc[c] \in {"segmented", "threw"}
             /\ callerPc[c] = "threw" => callerPc'[c] \in {"threw", "idle"}
       /\ loadCalls' # loadCalls =>
             /\ loadCalls' = loadCalls + 1
             /\ \E c \in Callers : callerPc[c] = "idle" /\ callerPc'[c] = "loading"
       /\ segmentCalls' # segmentCalls =>
             /\ segmentCalls' = segmentCalls + 1
             /\ callerPc["removeBackground"] = "returned"
             /\ callerPc'["removeBackground"] = "segmenting"]_vars

\* both preloads failed: nothing is cached, and no third load has been started
C16_Witness ==
    /\ callerPc["init"] = "threw"
    /\ callerPc["Home"] = "threw"
    /\ bodyPixModel = NoModel
    /\ loadCalls = 2
    /\ callerPc["removeBackground"] = "idle"

\* C17: once a load has completed, the cached instance is the one every later
\* loadModel() returns: the cache is never assigned again and bodyPix.load is
\* never invoked again.
C17_CachedInstanceKept ==
    [][bodyPixModel # NoModel =>
          /\ bodyPixModel' = bodyPixModel
          /\ loadCalls' = loadCalls]_vars


\* C18: the scale stays within 0.5 and 3.0 (50 and 300 hundredths).
C18_ScaleBounded ==
    scale \in 50 .. 300

\* zooming in from 2.95 or 2.9 ended at the upper limit
C18_Witness ==
    /\ event = "handleZoomIn"
    /\ scale = 300

\* C19: right after resetTransform the scale is 1.0 and the offset is (0, 0),
\* whatever they and the dragging flag were.
C19_ResetRestores ==
    event = "resetTransform" =>
        /\ scale = 100
        /\ position = Origin

\* a reset in the middle of a drag that began from a moved image
C19_Witness ==
    /\ event = "resetTransform"
    /\ isDragging
    /\ dragStart.x < 0
    /\ scale = 100
    /\ position = Origin

\* a step in which a transform handler ran: each of them records itself in
\* event, and only they write the transform state
TransformHandler ==
    <<scale, position, isDragging, dragStart, event>>'
        # <<scale, position, isDragging, dragStart, event>>

\* C20: zoom, drag, touch and reset leave the original image, the processed
\* image and what a download would produce as they were; they change nothing
\* but scale, position, isDragging and dragStart.
C20_ViewOnly ==
    [][TransformHandler =>
          /\ result' = result
          /\ \A fmt \in ImageFormats :
                 DownloadPayload(fmt)' = DownloadPayload(fmt)
          /\ UNCHANGED <<settingsVars, modelVars, uploadVars, pixelVars,
                         settingsData>>]_vars

\* the image has been zoomed and moved and the download is still the
\* processed image in its own size
C20_Witness ==
    /\ scale = 250
    /\ position = [x |-> 1, y |-> -1]
    /\ result.processed = ProcessedUrl(preview)
    /\ DownloadPayload("png") =
          [background |-> "none", image |-> result.processed, scale |-> 100,
           format |-> "png"]


\* download i was started under the image backdrop type with an image set
ImageBackdrop(i) ==
    /\ Has(downloads[i].settings, "backgroundType")
    /\ downloads[i].settings.backgroundType = "image"
    /\ downloads[i].settings.backgroundImage # ""

\* C21: when the backdrop type is image, every download composed in img.onload
\* holds the backdrop image under the cutout: the saved canvas is the backdrop
\* image and then the processed image.
C21_BackdropBehindCutout ==
    [][\A i \in 1 .. Len(downloads) :
          (/\ downloads[i].state = "loading"
           /\ downloads'[i].state = "saved"
           /\ ImageBackdrop(i))
          => downloads'[i].file.layers =
                <<[kind |-> "image", of |-> downloads[i].settings.backgroundImage],
                  downloads[i].image>>]_vars


\* the downloads whose link has been clicked
Saved == { i \in 1 .. Len(downloads) : downloads[i].state = "saved" }

Composited ==
    pipeline \in {"cutout", "refinedCutout", "partsCutout", "destinationIn", "edges"}

\* C23: the canvas removeBackground encodes has the source image's width and
\* height, and one pixel for each pixel of the source, under every
\* combination of the edge options.
C23_SameDimensions ==
    Composited =>
        /\ canvas.width = width
        /\ canvas.height = height
        /\ Cardinality(DOMAIN outPixels) = width * height
        /\ DOMAIN outPixels = DOMAIN srcPixels

\* a source wider than it is high has gone through the variant with every
\* edge option set, and the canvas is as wide and as high as the source
C23_Witness ==
    /\ pipeline = "edges"
    /\ Has(options, "refineEdges") /\ Has(options, "edgeDilation")
    /\ Has(options, "edgeBlurAmount")
    /\ width = 2 /\ height = 1
    /\ canvas = [width |-> 2, height |-> 1]


\* C24: the label array the model returned is never written: refineMask
\* expands a copy, and every step leaves each element of segmentation.data
\* as it was.
C24_LabelsNeverMutated ==
    [][/\ DOMAIN segData' = DOMAIN segData
       /\ \A i \in DOMAIN segData : segData'[i] = segData[i]]_vars

\* refineMask has expanded an interior pixel in its copy and the array it
\* was given still holds background there
C24_Witness ==
    /\ pipeline = "refined"
    /\ \E i \in DOMAIN segData : segData[i] = 0 /\ outMask[i] = 1


C27_ProcessingOnlyWhilePending ==
    processing => mutation.state = "pending"


\* C28: while allowMove is false or the settings have not arrived, no step
\* moves the image or starts a drag; while allowResize is false or the
\* settings have not arrived, no step changes scale.
C28_PermissionsGate ==
    [][/\ ~TruthyFlag(settingsData, "allowMove") =>
            /\ position' = position
            /\ isDragging' => isDragging
       /\ ~TruthyFlag(settingsData, "allowResize") => scale' = scale]_vars

\* the settings have arrived with allowMove false, the pointer went down on
\* the image and no drag began
C28_Witness ==
    /\ Has(settingsData, "allowMove") /\ ~settingsData.allowMove
    /\ event \in {"handleMouseDown", "handleTouchStart"}
    /\ ~isDragging
    /\ position = Origin


\* C29: the 'Image downloaded' toast is shown for a download only once its
\* link has been clicked: every download that has been reported has been
\* saved, and one whose image failed to load or had no canvas context is
\* not reported.
C29_SuccessAfterSave ==
    toast = "Image downloaded" =>
        \A i \in 1 .. Len(downloads) : downloads[i].state = "saved"


\* a step in which the settings form was submitted with data
Submitted(data) == onSubmit(data) \/ onSubmitStringified(data)

\* C30: whenever the settings form is submitted with valid data, the POST
\* handler receives an object equal to the data and answers 200, the store
\* then holds every value of the data, and a GET answers with the store.
C30_SaveRoundTrips ==
    [][/\ \A data \in FormValues :
            Submitted(data) =>
                /\ request'.body = data
                /\ response'.status = 200
                /\ \A k \in DOMAIN data : settings'[k] = data[k]
       /\ GetSettings => response'.json = settings]_vars

=============================================================================
